---- MODULE Spec2Model ----
(***************************************************************************)
(* Model of the vscode-mcp-server gateway: the line-range edit tool        *)
(* (src/src/tools/edit-tools.ts) and the enable/disable lifecycle of the   *)
(* MCP server (src/src/extension.ts, src/src/server.ts).                   *)
(*                                                                         *)
(* A text is a sequence of characters; the characters are two letters and  *)
(* the two line separators "\n" and "\r\n" (a CRLF pair is one element).   *)
(* A document is the host's TextDocument: its lines (without separators)   *)
(* and its end-of-line sequence.                                           *)
(***************************************************************************)
EXTENDS Integers, Sequences, FiniteSets, TLC

\* ------------------------------------------------------------- bounds ----
MaxLines == 2
MaxInstances == 3
MaxToggles == 2
MaxTerminals == 3

\* ------------------------------------------------------------- texts -----
LF == "\n"
CRLF == "\r\n"
Letters == {"a", "b"}
Seps == {LF, CRLF}

Min(a, b) == IF a < b THEN a ELSE b

\* Array.prototype.join(sep) on an array of lines
RECURSIVE Join(_, _)
Join(ls, sep) ==
    IF Len(ls) = 0 THEN << >>
    ELSE IF Len(ls) = 1 THEN ls[1]
    ELSE ls[1] \o << sep >> \o Join(Tail(ls), sep)

\* the host's split of an inserted text into lines, at "\n" and at "\r\n"
RECURSIVE SplitLines(_)
SplitLines(t) ==
    IF \A i \in 1..Len(t) : t[i] \notin Seps THEN << t >>
    ELSE LET k == CHOOSE i \in 1..Len(t) :
                      /\ t[i] \in Seps
                      /\ \A j \in 1..(i - 1) : t[j] \notin Seps
         IN << SubSeq(t, 1, k - 1) >> \o SplitLines(SubSeq(t, k + 1, Len(t)))

\* sequences over S of length lo..hi
SeqsOf(S, lo, hi) == UNION {[1..n -> S] : n \in lo..hi}

InputLines == {<< c >> : c \in Letters}

\* the texts a caller passes as content and as originalCode: the empty
\* string, and one or two one-letter lines joined by LF or by CRLF
TextLineCounts == {1, 2}
Texts ==
    {<< >>} \cup {Join(ls, sep) : ls \in UNION {[1..n -> InputLines] : n \in TextLineCounts},
                                  sep \in Seps}

\* the line numbers a caller passes
LineNumbers == (0 - 1)..MaxLines

\* the documents the workspace file starts as
InitDocs ==
    {[lines |-> ls, eol |-> e] : ls \in SeqsOf(InputLines, 1, MaxLines), e \in Seps}

\* ------------------------------------------------------------- state -----
VARIABLES
    doc,            \* the open TextDocument: [lines, eol]
    isDirty,        \* TextDocument.isDirty: the document has unsaved changes
    activeIsDoc,    \* window.activeTextEditor shows the document
    call,           \* call[c]: the replace_lines_code invocation of caller c
    serverEnabled,  \* extension.ts: let serverEnabled
    persisted,      \* globalState 'mcpServerEnabled'
    mcpServer,      \* extension.ts: let mcpServer (0 is undefined)
    inst,           \* inst[i]: the fields of MCPServer instance i
    created,        \* number of MCPServer instances constructed so far
    portTaken,      \* another process holds the configured port
    toggle,         \* toggle[t]: the toggleServerState invocation t
    revision,       \* which of the MCPServer classes of server.ts is the one built
    terminals,      \* vscode.window.terminals: the ids of the open terminals
    term,           \* term[h]: the vscode.Terminal object with handle h
    sharedTerminal, \* extension.ts: let sharedTerminal (0 is undefined)
    run,            \* run[r]: the execute_shell_command invocation of agent r
    req,            \* req[q]: the HTTP request q and its response
    files,          \* the workspace files: path -> bytes, or absent
    fcall,          \* the create_file_code / read_file_code invocation
    phase,          \* the extension in its host: unloaded, activating, active, ...
    defaultEnabled, \* the setting vscode-mcp-server.defaultEnabled
    persistedSet,   \* globalState holds a value for 'mcpServerEnabled'
    act,            \* the activate() invocation
    deact,          \* the deactivate() invocation
    disp,           \* the dispose() of the disposable activate() registers (193)
    client          \* a direct user of the exported MCPServer class (extension.ts 7)

editVars == << doc, isDirty, activeIsDoc, call >>
gateVars == << serverEnabled, persisted, mcpServer, inst, created, portTaken, toggle >>
termVars == << terminals, term, sharedTerminal >>
toolVars == << revision, run, req, files, fcall >>
lifeVars == << phase, defaultEnabled, persistedSet, act, deact, disp, client >>
restVars == << toolVars, lifeVars >>
vars == << doc, isDirty, activeIsDoc, call, serverEnabled, persisted, mcpServer, inst,
           created, portTaken, toggle, revision, terminals, term, sharedTerminal, run,
           req, files, fcall, phase, defaultEnabled, persistedSet, act, deact, disp,
           client >>

Callers == {1, 2}

\* ------------------------------------------------- replaceWorkspaceFileLines
\* the lines i..j (0-based, inclusive) of a line array
LinesOf(ls, i, j) == SubSeq(ls, i + 1, j + 1)

\* faulty variant: the upper bound of the start line is off by one
StartOutOfRange_OffByOne(d, startLine) == startLine < 0 \/ startLine > Len(d.lines)

\* edit-tools.ts 199: the start line is rejected
StartOutOfRange(d, startLine) == startLine < 0 \/ startLine >= Len(d.lines)

\* edit-tools.ts 202: the end line is rejected
EndOutOfRange(d, startLine, endLine) == endLine < startLine \/ endLine >= Len(d.lines)

\* faulty variant: only the first line of the range is compared
CurrentContent_FirstLineOnly(d, startLine, endLine) == d.lines[startLine + 1]

\* edit-tools.ts 207-211: currentLines.join('\n')
CurrentContent(d, startLine, endLine) == Join(LinesOf(d.lines, startLine, endLine), LF)

\* edit-tools.ts 214: currentContent !== originalCode
ValidationFails(d, startLine, endLine, originalCode) ==
    CurrentContent(d, startLine, endLine) # originalCode

\* faulty variant: the range ends at the start of line endLine
RangeOf_EndAtLineStart(d, startLine, endLine) ==
    [startLine |-> startLine, endLine |-> endLine, endCol |-> 0]

\* edit-tools.ts 219-221: Range((startLine, 0), (endLine, length of line endLine))
RangeOf(d, startLine, endLine) ==
    [startLine |-> startLine, endLine |-> endLine, endCol |-> Len(d.lines[endLine + 1])]

\* edit-tools.ts 230-232: editBuilder.replace(range, content) as the host applies
\* it to the lines the document has then: positions are clamped to the document,
\* the text before the start position and after the end position is kept, and
\* the inserted text is split into lines (its separators become the document's)
ReplaceRange(ls, r, content) ==
    LET n == Len(ls)
        sl == Min(r.startLine, n - 1)
        el == Min(r.endLine, n - 1)
        head == IF r.startLine > n - 1 THEN ls[n] ELSE << >>
        ecol == IF r.endLine > n - 1 THEN Len(ls[n]) ELSE Min(r.endCol, Len(ls[el + 1]))
        rest == SubSeq(ls[el + 1], ecol + 1, Len(ls[el + 1]))
        ins == SplitLines(head \o content \o rest)
    IN SubSeq(ls, 1, sl) \o ins \o SubSeq(ls, el + 2, n)

\* the text a range of the document holds: its lines joined by the document's
\* own end-of-line sequence
RangeText(d, startLine, endLine) == Join(LinesOf(d.lines, startLine, endLine), d.eol)

IdleCall ==
    [pc |-> "idle", startLine |-> 0, endLine |-> 0, content |-> << >>,
     originalCode |-> << >>, range |-> [startLine |-> 0, endLine |-> 0, endCol |-> 0],
     versionOk |-> FALSE, result |-> "none", pre |-> << >>,
     applied |-> FALSE, matchedAtApply |-> FALSE, saved |-> "none",
     repeat |-> FALSE, prevChanged |-> FALSE]

\* the lines of [startLine, endLine] that the line array has
RangeLinesClamped(ls, startLine, endLine) ==
    IF startLine < 0 THEN << >>
    ELSE SubSeq(ls, startLine + 1, Min(endLine + 1, Len(ls)))

\* the tool handler is entered (edit-tools.ts 309-314) and
\* replaceWorkspaceFileLines runs up to `await openTextDocument` (174-196).
\* The path names an existing file of the open workspace folder.
Call(c, startLine, endLine, content, originalCode) ==
    /\ call[c].pc \in {"idle", "returned"}
    /\ call' = [call EXCEPT ![c] =
           [IdleCall EXCEPT
              !.pc = "open",
              !.startLine = startLine, !.endLine = endLine,
              !.content = content, !.originalCode = originalCode,
              !.pre = doc.lines,
              !.repeat = /\ call[c].pc = "returned"
                         /\ call[c].result = "ok"
                         /\ call[c].startLine = startLine
                         /\ call[c].endLine = endLine
                         /\ call[c].content = content
                         /\ call[c].originalCode = originalCode,
              !.prevChanged = /\ call[c].pc = "returned"
                              /\ RangeLinesClamped(doc.lines, startLine, endLine)
                                   # RangeLinesClamped(call[c].pre, startLine, endLine)]]
    /\ UNCHANGED << doc, isDirty, activeIsDoc >>
    /\ UNCHANGED << gateVars, termVars, restVars >>

\* the call fails: the error is logged and rethrown (edit-tools.ts 243-246, 326-329)
Throw(c, error) == [call[c] EXCEPT !.pc = "returned", !.result = error]

\* editor.edit(...) is called (edit-tools.ts 230): the host takes the edit for the
\* version the document has now and answers later
SubmitEdit(c, r) == [call[c] EXCEPT !.pc = "edit", !.range = r, !.versionOk = TRUE]

\* openTextDocument resolved: validation (edit-tools.ts 198-216), the range
\* (218-221), and the editor (223-227): the active editor, or `await showTextDocument`
AfterOpen(c) ==
    /\ call[c].pc = "open"
    /\ LET a == call[c]
           r == RangeOf(doc, a.startLine, a.endLine)
       IN call' = [call EXCEPT ![c] =
              IF StartOutOfRange(doc, a.startLine) THEN Throw(c, "start_out_of_range")
              ELSE IF EndOutOfRange(doc, a.startLine, a.endLine)
                   THEN Throw(c, "end_out_of_range")
              ELSE IF ValidationFails(doc, a.startLine, a.endLine, a.originalCode)
                   THEN Throw(c, "validation_failed")
              ELSE IF activeIsDoc THEN SubmitEdit(c, r)
              ELSE [a EXCEPT !.pc = "show", !.range = r]]
    /\ UNCHANGED << doc, isDirty, activeIsDoc >>
    /\ UNCHANGED << gateVars, termVars, restVars >>

\* showTextDocument resolved (edit-tools.ts 226), then editor.edit is called (230)
AfterShow(c) ==
    /\ call[c].pc = "show"
    /\ activeIsDoc' = TRUE
    /\ call' = [call EXCEPT ![c] = SubmitEdit(c, call[c].range)]
    /\ UNCHANGED << doc, isDirty >>
    /\ UNCHANGED << gateVars, termVars, restVars >>

\* what the caller does with the answer of editor.edit (edit-tools.ts 234-242)
OnEditResult(c, success) ==
    IF success THEN [call[c] EXCEPT !.pc = "save"] ELSE Throw(c, "edit_failed")

\* the host answers editor.edit (edit-tools.ts 230-242). It refuses an edit made
\* for an older version of the document and may refuse any edit (accept = FALSE);
\* an applied edit makes the edits still waiting for the old version stale.
AfterEdit(c, accept) ==
    /\ call[c].pc = "edit"
    /\ LET a == call[c]
           success == accept /\ a.versionOk
           new == ReplaceRange(doc.lines, a.range, a.content)
           mine == [OnEditResult(c, success) EXCEPT
                      !.applied = success,
                      !.matchedAtApply =
                          /\ success
                          /\ a.endLine < Len(doc.lines)
                          /\ RangeText(doc, a.startLine, a.endLine) = a.originalCode]
       IN /\ success => Len(new) <= MaxLines
          /\ doc' = IF success THEN [doc EXCEPT !.lines = new] ELSE doc
          /\ isDirty' = (isDirty \/ success)
          /\ call' = [o \in Callers |->
                 IF o = c THEN mine
                 ELSE IF success /\ call[o].pc = "edit"
                      THEN [call[o] EXCEPT !.versionOk = FALSE]
                 ELSE call[o]]
    /\ UNCHANGED activeIsDoc
    /\ UNCHANGED << gateVars, termVars, restVars >>

\* what the caller does with the outcome of `await document.save()`
\* (edit-tools.ts 238-239): the promised boolean is not looked at
OnSaveResult(c, outcome) ==
    IF outcome = "throws" THEN Throw(c, "save_failed")
    ELSE [call[c] EXCEPT !.pc = "returned", !.result = "ok"]

\* document.save() settles: true (saved), false (not saved), or it rejects
AfterSave(c, outcome) ==
    /\ call[c].pc = "save"
    /\ isDirty' = (isDirty /\ outcome # "saved")
    /\ call' = [call EXCEPT ![c] = [OnSaveResult(c, outcome) EXCEPT !.saved = outcome]]
    /\ UNCHANGED << doc, activeIsDoc >>
    /\ UNCHANGED << gateVars, termVars, restVars >>

SaveOutcomes == {"saved", "not_saved", "throws"}

\* the tool result has gone back to the agent (edit-tools.ts 316-329)
Respond(c) ==
    /\ call[c].pc = "returned"
    /\ call' = [call EXCEPT ![c] = IdleCall]
    /\ UNCHANGED << doc, isDirty, activeIsDoc >>
    /\ UNCHANGED << gateVars, termVars, restVars >>

\* the user brings another editor to the front
FocusOther ==
    /\ activeIsDoc
    /\ activeIsDoc' = FALSE
    /\ UNCHANGED << doc, isDirty, call >>
    /\ UNCHANGED << gateVars, termVars, restVars >>

\* ------------------------------------------------------------- console ---
\* extension.ts 16
TERMINAL_NAME == "MCP Shell Commands"

\* the name of a terminal the user opens in the window
USER_TERMINAL_NAME == "bash"

Handles == 1..MaxTerminals

\* a vscode.Terminal: its name, its exitStatus ("undefined" while the shell
\* runs), the agent whose command has the exclusive claim on it (0: none), and
\* whether it was pushed to context.subscriptions (extension.ts 36)
NewTerminal(name) ==
    [name |-> name, exitStatus |-> "undefined", claimedBy |-> 0, subscribed |-> FALSE]

\* a handle no terminal was created for
NoTerminal == NewTerminal("none")

\* the handle the host gives the next terminal it creates
NextHandle == Cardinality({h \in Handles : term[h].name # "none"}) + 1

RECURSIVE Find(_, _)
\* extension.ts 25: terminals.find(t => t.name === name), 0 for undefined
Find(ts, name) ==
    IF ts = << >> THEN 0
    ELSE IF term[Head(ts)].name = name THEN Head(ts)
    ELSE Find(Tail(ts), name)

\* faulty variant: the lookup finds nothing
ExistingTerminal_NeverFound == Find(<< >>, TERMINAL_NAME)

\* extension.ts 25: const existingTerminal
ExistingTerminal == Find(terminals, TERMINAL_NAME)

\* extension.ts 27: the existing terminal is reused
Reuse == ExistingTerminal # 0 /\ term[ExistingTerminal].exitStatus = "undefined"

\* extension.ts 23-39: getExtensionTerminal returns h: the existing terminal,
\* or a terminal it creates (34), which the host lists in window.terminals
GetExtensionTerminal(h) ==
    IF Reuse
    THEN /\ h = ExistingTerminal
         /\ UNCHANGED termVars
    ELSE /\ h = NextHandle
         /\ term' = [term EXCEPT ![h] =
                [NewTerminal(TERMINAL_NAME) EXCEPT !.subscribed = TRUE]]
         /\ terminals' = Append(terminals, h)
         /\ sharedTerminal' = h

\* the terminals of the window that have not exited
Live == {h \in Handles : term[h].name # "none" /\ term[h].exitStatus = "undefined"}

\* a terminal is terminated from outside (the user closes it, or its shell
\* exits): the host sets its exitStatus and drops it from window.terminals
ExternalExit(h) ==
    /\ h \in Live
    /\ term' = [term EXCEPT ![h].exitStatus = "exited"]
    /\ terminals' = SelectSeq(terminals, LAMBDA x : x # h)
    /\ UNCHANGED << sharedTerminal, restVars >>
    /\ UNCHANGED << editVars, gateVars >>

\* the user opens a terminal of their own
UserOpensTerminal ==
    /\ NextHandle \in Handles
    /\ term' = [term EXCEPT ![NextHandle] = NewTerminal(USER_TERMINAL_NAME)]
    /\ terminals' = Append(terminals, NextHandle)
    /\ UNCHANGED << sharedTerminal, restVars >>
    /\ UNCHANGED << editVars, gateVars >>

\* ------------------------------------------------------------- gateway ---
\* server.ts 26-53: a constructed MCPServer. httpServer is "none" (undefined),
\* "listening" (bound to the port), "failed" (the bind failed: an 'error' event
\* and no callback), "closing" (close() called, socket released, callback
\* pending) or "closed"
NewInstance ==
    [connected |-> FALSE, httpServer |-> "none",
     transportClosed |-> FALSE, serverClosed |-> FALSE,
     terminal |-> 0, host |-> "none",
     fileListingCallback |-> FALSE, tools |-> {}]

\* server.ts 59-71: the groups of tools setupTools registers
ToolGroups == {"file", "edit", "shell", "diagnostics"}

\* server.ts 22-24
SetFileListingCallback(m) == [m EXCEPT !.fileListingCallback = TRUE]

\* faulty variant: the tools are registered whether the callback is set or not
SetupTools_Unconditional(m) == [m EXCEPT !.tools = ToolGroups]

\* server.ts 55-76: with the callback set every group is registered, without
\* it nothing is (a warning is logged)
SetupTools(m) == IF m.fileListingCallback THEN [m EXCEPT !.tools = ToolGroups] ELSE m

\* server.ts 26-28: new MCPServer(port, terminal)
Construct(h) == [NewInstance EXCEPT !.terminal = h]

\* extension.ts 77-86 and 147-160: the instance toggleServerState and
\* activate build before they call start()
Configure(h) == SetupTools(SetFileListingCallback(Construct(h)))

\* the MCPServer classes of server.ts: 13-247, 255-437 and 446-658
Revisions == {"first", "second", "third"}

\* server.ts 188, 404, 625: the address app.listen binds. Without a host
\* argument the socket is bound to the unspecified (any-interface) address.
ListenHost(rev) == IF rev = "first" THEN "127.0.0.1" ELSE "any"

\* an invocation of activate(), deactivate() or the disposable's dispose():
\* where it is, the instance whose start() or stop() it awaits, and whether
\* its httpServer.close() found a handle to close
IdleThread == [pc |-> "idle", self |-> 0, hadHandle |-> FALSE]

Instances == 1..MaxInstances
Toggles == 1..MaxToggles

IdleToggle == [pc |-> "idle", enabling |-> FALSE, self |-> 0, hadHandle |-> FALSE]

\* the instances whose HTTP server holds the port
Bound == {i \in Instances : inst[i].httpServer = "listening"}

\* server.ts 188: app.listen(port, '127.0.0.1', cb) binds unless the port is held
Listen(i) == IF Bound = {} /\ ~portTaken THEN "listening" ELSE "failed"

\* server.ts 216: the HTTP server has a handle to close
HasHandle(i) == inst[i].httpServer = "listening"

\* server.ts 216: httpServer.close(cb) releases the socket of a listening
\* server; on a server that is not listening the callback gets an error
Close(i) == IF inst[i].httpServer = "listening" THEN "closing" ELSE inst[i].httpServer

\* faulty variant: the state is stored before it is flipped
StoredByToggle_BeforeFlip(enabled) == enabled

\* extension.ts 64-67: serverEnabled is flipped, then stored:
\* globalState.update('mcpServerEnabled', serverEnabled) with the new value
StoredByToggle(enabled) == ~enabled

\* extension.ts 61-91 and 98-104: toggleServerState up to its first await.
\* Enabling with no instance gets the terminal (76), constructs an MCPServer
\* with it (77, server.ts 26-28), registers the tools and runs start() up to
\* `await this.server.connect` (server.ts 170-178); disabling with an instance
\* runs stop() up to the close of the HTTP server (server.ts 205-216) or, with
\* no HTTP server, up to `await this.transport.close()` (server.ts 229).
ToggleServerState(t) ==
    /\ phase = "active"
    /\ toggle[t].pc \in {"idle", "returned", "threw"}
    /\ serverEnabled' = ~serverEnabled
    /\ persisted' = StoredByToggle(serverEnabled)
    /\ persistedSet' = TRUE
    /\ IF ~serverEnabled
       THEN IF mcpServer = 0
            THEN /\ created < MaxInstances
                 /\ created' = created + 1
                 /\ mcpServer' = created + 1
                 /\ \E h \in Handles :
                       /\ GetExtensionTerminal(h)
                       /\ inst' = [inst EXCEPT ![created + 1] = Configure(h)]
                 /\ toggle' = [toggle EXCEPT ![t] =
                        [pc |-> "start_connect", enabling |-> TRUE, self |-> created + 1,
                         hadHandle |-> FALSE]]
            ELSE /\ toggle' = [toggle EXCEPT ![t] =
                        [pc |-> "returned", enabling |-> TRUE, self |-> 0,
                         hadHandle |-> FALSE]]
                 /\ UNCHANGED << mcpServer, inst, created >>
                 /\ UNCHANGED termVars
       ELSE IF mcpServer # 0
            THEN /\ inst' = [inst EXCEPT ![mcpServer].httpServer = Close(mcpServer)]
                 /\ toggle' = [toggle EXCEPT ![t] =
                        [pc |-> IF inst[mcpServer].httpServer # "none"
                                THEN "stop_http" ELSE "stop_transport",
                         enabling |-> FALSE, self |-> mcpServer,
                         hadHandle |-> HasHandle(mcpServer)]]
                 /\ UNCHANGED << mcpServer, created >>
                 /\ UNCHANGED termVars
            ELSE /\ toggle' = [toggle EXCEPT ![t] =
                        [pc |-> "returned", enabling |-> FALSE, self |-> 0,
                         hadHandle |-> FALSE]]
                 /\ UNCHANGED << mcpServer, inst, created >>
                 /\ UNCHANGED termVars
    /\ UNCHANGED portTaken
    /\ UNCHANGED << editVars, toolVars >>
    /\ UNCHANGED << phase, defaultEnabled, client, act, deact, disp >>

\* server.ts 178-198: server.connect settles. Resolved: app.listen is called and
\* start() waits for its callback. Rejected: start() rethrows (199-202) and so
\* does toggleServerState, which has no handler (extension.ts 91).
AfterConnect(t, ok) ==
    /\ toggle[t].pc = "start_connect"
    /\ LET i == toggle[t].self
       IN IF ok
          THEN /\ inst' = [inst EXCEPT ![i].connected = TRUE,
                                       ![i].httpServer = Listen(i),
                                       ![i].host = ListenHost(revision)]
               /\ toggle' = [toggle EXCEPT ![t].pc = "start_listen"]
          ELSE /\ toggle' = [toggle EXCEPT ![t].pc = "threw"]
               /\ UNCHANGED inst
    /\ UNCHANGED << serverEnabled, persisted, mcpServer, created, portTaken >>
    /\ UNCHANGED << editVars, termVars, restVars >>

\* server.ts 188-197: the listen callback runs, start() resolves, and
\* toggleServerState finishes (extension.ts 93-96, 114-115). After a failed
\* bind the callback never runs and start() never settles.
ListenCallback(t) ==
    /\ toggle[t].pc = "start_listen"
    /\ inst[toggle[t].self].httpServer # "failed"
    /\ toggle' = [toggle EXCEPT ![t].pc = "returned"]
    /\ UNCHANGED << serverEnabled, persisted, mcpServer, inst, created, portTaken >>
    /\ UNCHANGED << editVars, termVars, restVars >>

\* faulty variant: the error of the close callback is dropped
OnHttpClose_IgnoreError(err) == "stop_transport"

\* server.ts 220-221: `if (err) reject(err); else resolve();` and what stop()
\* does next: rethrow (242-245), or go on to close the transport (229)
OnHttpClose(err) == IF err THEN "threw" ELSE "stop_transport"

\* server.ts 215-229: the close callback runs. Without error the HTTP server is
\* closed and stop() goes on to `await this.transport.close()`; with an error
\* (the server was not listening) stop() rethrows (242-245) and so does
\* toggleServerState (extension.ts 104).
HttpCloseCallback(t) ==
    /\ toggle[t].pc = "stop_http"
    /\ LET i == toggle[t].self
       IN /\ inst' = IF toggle[t].hadHandle
                     THEN [inst EXCEPT ![i].httpServer = "closed"] ELSE inst
          /\ toggle' = [toggle EXCEPT ![t].pc = OnHttpClose(~toggle[t].hadHandle)]
    /\ UNCHANGED << serverEnabled, persisted, mcpServer, created, portTaken >>
    /\ UNCHANGED << editVars, termVars, restVars >>

\* server.ts 229-236: transport.close() resolved; `await this.server.close()`
TransportClosed(t) ==
    /\ toggle[t].pc = "stop_transport"
    /\ inst' = [inst EXCEPT ![toggle[t].self].transportClosed = TRUE]
    /\ toggle' = [toggle EXCEPT ![t].pc = "stop_server"]
    /\ UNCHANGED << serverEnabled, persisted, mcpServer, created, portTaken >>
    /\ UNCHANGED << editVars, termVars, restVars >>

\* server.ts 236-241: server.close() resolved and stop() returns;
\* toggleServerState clears mcpServer and finishes (extension.ts 106-115)
ServerClosed(t) ==
    /\ toggle[t].pc = "stop_server"
    /\ inst' = [inst EXCEPT ![toggle[t].self].serverClosed = TRUE]
    /\ mcpServer' = 0
    /\ toggle' = [toggle EXCEPT ![t].pc = "returned"]
    /\ UNCHANGED << serverEnabled, persisted, created, portTaken >>
    /\ UNCHANGED << editVars, termVars, restVars >>

\* another process binds the configured port, or gives it up
OtherProcess ==
    /\ Bound = {}
    /\ portTaken' = ~portTaken
    /\ UNCHANGED << serverEnabled, persisted, mcpServer, inst, created, toggle >>
    /\ UNCHANGED << editVars, termVars, restVars >>

\* ------------------------------------------------- MCPServer, used directly
\* extension.ts 7 exports MCPServer: a caller other than activate and
\* toggleServerState constructs an instance and calls its public methods in an
\* order of its own. setup is "not_called", or whether the callback was set
\* ("set") or not ("unset") when setupTools was called.
IdleClient == [pc |-> "idle", self |-> 0, setup |-> "not_called"]

\* server.ts 26-53: new MCPServer(port)
ClientConstructs ==
    /\ client.pc \in {"idle", "returned", "threw"}
    /\ created < MaxInstances
    /\ created' = created + 1
    /\ inst' = [inst EXCEPT ![created + 1] = Construct(0)]
    /\ client' = [pc |-> "built", self |-> created + 1, setup |-> "not_called"]
    /\ UNCHANGED << serverEnabled, persisted, mcpServer, portTaken, toggle >>
    /\ UNCHANGED << phase, defaultEnabled, persistedSet, act, deact, disp >>
    /\ UNCHANGED << editVars, termVars, toolVars >>

\* server.ts 22-24: setFileListingCallback
ClientSetsCallback ==
    /\ client.pc = "built"
    /\ ~inst[client.self].fileListingCallback
    /\ inst' = [inst EXCEPT ![client.self] = SetFileListingCallback(inst[client.self])]
    /\ UNCHANGED << serverEnabled, persisted, mcpServer, created, portTaken, toggle >>
    /\ UNCHANGED lifeVars
    /\ UNCHANGED << editVars, termVars, toolVars >>

\* server.ts 55-76: setupTools
ClientSetupTools ==
    /\ client.pc = "built"
    /\ client.setup = "not_called"
    /\ inst' = [inst EXCEPT ![client.self] = SetupTools(inst[client.self])]
    /\ client' = [client EXCEPT !.setup =
          IF inst[client.self].fileListingCallback THEN "set" ELSE "unset"]
    /\ UNCHANGED << serverEnabled, persisted, mcpServer, created, portTaken, toggle >>
    /\ UNCHANGED << phase, defaultEnabled, persistedSet, act, deact, disp >>
    /\ UNCHANGED << editVars, termVars, toolVars >>

\* server.ts 170-178: start() up to `await this.server.connect`
ClientStarts ==
    /\ client.pc = "built"
    /\ client' = [client EXCEPT !.pc = "start_connect"]
    /\ UNCHANGED gateVars
    /\ UNCHANGED << phase, defaultEnabled, persistedSet, act, deact, disp >>
    /\ UNCHANGED << editVars, termVars, toolVars >>

\* server.ts 178-202: server.connect settles; resolved, app.listen is called
ClientAfterConnect(ok) ==
    /\ client.pc = "start_connect"
    /\ IF ok
       THEN /\ inst' = [inst EXCEPT ![client.self].connected = TRUE,
                                    ![client.self].httpServer = Listen(client.self),
                                    ![client.self].host = ListenHost(revision)]
            /\ client' = [client EXCEPT !.pc = "start_listen"]
       ELSE /\ client' = [client EXCEPT !.pc = "threw"]
            /\ UNCHANGED inst
    /\ UNCHANGED << serverEnabled, persisted, mcpServer, created, portTaken, toggle >>
    /\ UNCHANGED << phase, defaultEnabled, persistedSet, act, deact, disp >>
    /\ UNCHANGED << editVars, termVars, toolVars >>

\* server.ts 188-197: the listen callback runs and start() resolves
ClientListenCallback ==
    /\ client.pc = "start_listen"
    /\ inst[client.self].httpServer # "failed"
    /\ client' = [client EXCEPT !.pc = "returned"]
    /\ UNCHANGED gateVars
    /\ UNCHANGED << phase, defaultEnabled, persistedSet, act, deact, disp >>
    /\ UNCHANGED << editVars, termVars, toolVars >>

\* ------------------------------------------------------------ lifecycle -
\* faulty variant: the saved state is ignored
LoadState_DefaultOnly == defaultEnabled

\* extension.ts 125-129: globalState.get('mcpServerEnabled', defaultEnabled)
LoadState == IF persistedSet THEN persisted ELSE defaultEnabled

\* server.ts 205-229: stop() up to its first await, as a thread on instance i
StopCall(i) ==
    [pc |-> IF inst[i].httpServer # "none" THEN "stop_http" ELSE "stop_transport",
     self |-> i, hadHandle |-> HasHandle(i)]

\* Terminal.dispose(): the host ends the terminal and drops it from
\* window.terminals; on a terminal that has exited it does nothing
Dispose(hs) ==
    /\ term' = [h \in Handles |->
                  IF h \in hs /\ term[h].exitStatus = "undefined" /\ term[h].name # "none"
                  THEN [term[h] EXCEPT !.exitStatus = "exited"] ELSE term[h]]
    /\ terminals' = SelectSeq(terminals, LAMBDA x : x \notin hs)

\* extension.ts 118-162: the host calls activate(). The state is loaded (129);
\* when it is true the terminal is fetched, the MCPServer is built and start()
\* runs up to `await this.server.connect` (server.ts 178); when it is false the
\* commands are registered at once (172-194).
Activate ==
    /\ phase = "unloaded"
    /\ serverEnabled' = LoadState
    /\ IF LoadState
       THEN /\ created < MaxInstances
            /\ created' = created + 1
            /\ mcpServer' = created + 1
            /\ \E h \in Handles :
                  /\ GetExtensionTerminal(h)
                  /\ inst' = [inst EXCEPT ![created + 1] = Configure(h)]
            /\ act' = [pc |-> "start_connect", self |-> created + 1, hadHandle |-> FALSE]
            /\ phase' = "activating"
       ELSE /\ act' = [pc |-> "returned", self |-> 0, hadHandle |-> FALSE]
            /\ phase' = "active"
            /\ UNCHANGED << mcpServer, inst, created >>
            /\ UNCHANGED termVars
    /\ UNCHANGED << persisted, portTaken, toggle >>
    /\ UNCHANGED << defaultEnabled, client, persistedSet, deact, disp >>
    /\ UNCHANGED << editVars, toolVars >>

\* server.ts 178-198 inside activate (extension.ts 162): server.connect
\* settles. Resolved: app.listen is called. Rejected: start() rethrows and
\* activate catches (195-198): it returns without registering the commands.
ActivateAfterConnect(ok) ==
    /\ act.pc = "start_connect"
    /\ IF ok
       THEN /\ inst' = [inst EXCEPT ![act.self].connected = TRUE,
                                    ![act.self].httpServer = Listen(act.self),
                                    ![act.self].host = ListenHost(revision)]
            /\ act' = [act EXCEPT !.pc = "start_listen"]
            /\ UNCHANGED phase
       ELSE /\ act' = [act EXCEPT !.pc = "caught"]
            /\ phase' = "failed"
            /\ UNCHANGED inst
    /\ UNCHANGED << serverEnabled, persisted, mcpServer, created, portTaken, toggle >>
    /\ UNCHANGED << defaultEnabled, client, persistedSet, deact, disp >>
    /\ UNCHANGED << editVars, termVars, toolVars >>

\* server.ts 188-197 inside activate: the listen callback runs, start()
\* resolves and activate registers the commands (extension.ts 163-194)
ActivateListenCallback ==
    /\ act.pc = "start_listen"
    /\ inst[act.self].httpServer # "failed"
    /\ act' = [act EXCEPT !.pc = "returned"]
    /\ phase' = "active"
    /\ UNCHANGED gateVars
    /\ UNCHANGED << defaultEnabled, client, persistedSet, deact, disp >>
    /\ UNCHANGED << editVars, termVars, toolVars >>

\* extension.ts 201-217: the host calls deactivate() on the activated
\* extension. The shared terminal is disposed if the variable is set (208-211);
\* with no server it returns (213), else stop() runs up to its first await.
Deactivate ==
    /\ phase \in {"active", "failed"}
    /\ phase' = "deactivating"
    /\ IF sharedTerminal # 0
       THEN Dispose({sharedTerminal}) /\ sharedTerminal' = 0
       ELSE UNCHANGED termVars
    /\ IF mcpServer = 0
       THEN /\ deact' = [pc |-> "returned", self |-> 0, hadHandle |-> FALSE]
            /\ UNCHANGED inst
       ELSE /\ deact' = StopCall(mcpServer)
            /\ inst' = [inst EXCEPT ![mcpServer].httpServer = Close(mcpServer)]
    /\ UNCHANGED << serverEnabled, persisted, mcpServer, created, portTaken, toggle >>
    /\ UNCHANGED << defaultEnabled, client, persistedSet, act, disp >>
    /\ UNCHANGED << editVars, toolVars >>

\* server.ts 215-229 inside deactivate: the close callback. With an error
\* stop() rethrows, deactivate rethrows (219-221) and clears mcpServer (223).
DeactivateHttpCloseCallback ==
    /\ deact.pc = "stop_http"
    /\ IF deact.hadHandle
       THEN /\ inst' = [inst EXCEPT ![deact.self].httpServer = "closed"]
            /\ deact' = [deact EXCEPT !.pc = "stop_transport"]
            /\ UNCHANGED mcpServer
       ELSE /\ deact' = [deact EXCEPT !.pc = "threw"]
            /\ mcpServer' = 0
            /\ UNCHANGED inst
    /\ UNCHANGED << serverEnabled, persisted, created, portTaken, toggle >>
    /\ UNCHANGED << phase, defaultEnabled, client, persistedSet, act, disp >>
    /\ UNCHANGED << editVars, termVars, toolVars >>

\* server.ts 229-236 inside deactivate
DeactivateTransportClosed ==
    /\ deact.pc = "stop_transport"
    /\ inst' = [inst EXCEPT ![deact.self].transportClosed = TRUE]
    /\ deact' = [deact EXCEPT !.pc = "stop_server"]
    /\ UNCHANGED << serverEnabled, persisted, mcpServer, created, portTaken, toggle >>
    /\ UNCHANGED << phase, defaultEnabled, client, persistedSet, act, disp >>
    /\ UNCHANGED << editVars, termVars, toolVars >>

\* server.ts 236-241 inside deactivate: stop() returns, deactivate clears
\* mcpServer (extension.ts 218-226)
DeactivateServerClosed ==
    /\ deact.pc = "stop_server"
    /\ inst' = [inst EXCEPT ![deact.self].serverClosed = TRUE]
    /\ deact' = [deact EXCEPT !.pc = "returned"]
    /\ mcpServer' = 0
    /\ UNCHANGED << serverEnabled, persisted, created, portTaken, toggle >>
    /\ UNCHANGED << phase, defaultEnabled, client, persistedSet, act, disp >>
    /\ UNCHANGED << editVars, termVars, toolVars >>

\* the terminals pushed to context.subscriptions (extension.ts 36)
Subscribed == {h \in Handles : term[h].subscribed}

\* extension.ts 189-194: the host disposes context.subscriptions once
\* deactivate() has been called: the terminals getExtensionTerminal created,
\* the commands, and the disposable of line 193, which calls stop() when
\* mcpServer is (still) defined.
DisposeSubscriptions ==
    /\ phase = "deactivating"
    /\ disp.pc = "idle"
    /\ Dispose(Subscribed)
    /\ UNCHANGED sharedTerminal
    /\ IF mcpServer = 0
       THEN /\ disp' = [pc |-> "returned", self |-> 0, hadHandle |-> FALSE]
            /\ UNCHANGED inst
       ELSE /\ disp' = StopCall(mcpServer)
            /\ inst' = [inst EXCEPT ![mcpServer].httpServer = Close(mcpServer)]
    /\ UNCHANGED << serverEnabled, persisted, mcpServer, created, portTaken, toggle >>
    /\ UNCHANGED << phase, defaultEnabled, client, persistedSet, act, deact >>
    /\ UNCHANGED << editVars, toolVars >>

\* server.ts 215-229 inside the disposable: the close callback
DisposableHttpCloseCallback ==
    /\ disp.pc = "stop_http"
    /\ IF disp.hadHandle
       THEN /\ inst' = [inst EXCEPT ![disp.self].httpServer = "closed"]
            /\ disp' = [disp EXCEPT !.pc = "stop_transport"]
       ELSE /\ disp' = [disp EXCEPT !.pc = "threw"]
            /\ UNCHANGED inst
    /\ UNCHANGED << serverEnabled, persisted, mcpServer, created, portTaken, toggle >>
    /\ UNCHANGED << phase, defaultEnabled, client, persistedSet, act, deact >>
    /\ UNCHANGED << editVars, termVars, toolVars >>

\* server.ts 229-236 inside the disposable
DisposableTransportClosed ==
    /\ disp.pc = "stop_transport"
    /\ inst' = [inst EXCEPT ![disp.self].transportClosed = TRUE]
    /\ disp' = [disp EXCEPT !.pc = "stop_server"]
    /\ UNCHANGED << serverEnabled, persisted, mcpServer, created, portTaken, toggle >>
    /\ UNCHANGED << phase, defaultEnabled, client, persistedSet, act, deact >>
    /\ UNCHANGED << editVars, termVars, toolVars >>

\* server.ts 236-241 inside the disposable
DisposableServerClosed ==
    /\ disp.pc = "stop_server"
    /\ inst' = [inst EXCEPT ![disp.self].serverClosed = TRUE]
    /\ disp' = [disp EXCEPT !.pc = "returned"]
    /\ UNCHANGED << serverEnabled, persisted, mcpServer, created, portTaken, toggle >>
    /\ UNCHANGED << phase, defaultEnabled, client, persistedSet, act, deact >>
    /\ UNCHANGED << editVars, termVars, toolVars >>

\* deactivate() and the disposal have both settled
ShutDown ==
    /\ phase = "deactivating"
    /\ deact.pc \in {"returned", "threw"}
    /\ disp.pc \in {"returned", "threw"}

\* the extension host process ends and a new one loads the module: the
\* module variables have their initial values (extension.ts 9-13), the
\* sockets of the old process are closed, no invocation is left; the
\* terminals of the window and globalState stay.
ProcessEnds ==
    /\ phase' = "unloaded"
    /\ serverEnabled' = FALSE
    /\ mcpServer' = 0
    /\ sharedTerminal' = 0
    /\ inst' = [i \in Instances |->
                  IF inst[i].httpServer \in {"listening", "closing"}
                  THEN [inst[i] EXCEPT !.httpServer = "closed"] ELSE inst[i]]
    /\ term' = [h \in Handles |-> [term[h] EXCEPT !.subscribed = FALSE]]
    /\ toggle' = [t \in Toggles |-> IdleToggle]
    /\ act' = IdleThread
    /\ deact' = IdleThread
    /\ disp' = IdleThread
    /\ client' = IdleClient
    /\ UNCHANGED << persisted, created, portTaken, terminals >>
    /\ UNCHANGED << defaultEnabled, client, persistedSet >>
    /\ UNCHANGED << editVars, toolVars >>

\* the host shuts the extension host down after deactivation
HostExits == ShutDown /\ ProcessEnds

\* the extension host process is killed or crashes: deactivate() is not called
HostCrashes == phase \in {"activating", "active", "failed"} /\ ProcessEnds

\* ------------------------------------------------- execute_shell_command -
\* The tool is registered with the terminal the MCPServer was constructed with
\* (server.ts 28, 67). Its handler, tools/shell-tools.ts, is modelled from the
\* contract of the console manager: exclusive access to the session, the
\* output captured between submission and completion, and a failure when the
\* console is dead.
Runners == {1, 2}

IdleRun ==
    [pc |-> "idle", terminal |-> 0, captured |-> << >>, waited |-> FALSE,
     staleAtCall |-> FALSE, result |-> "none"]

\* faulty variant: the claim of another command is not looked at
ClaimFree_Always(h) == TRUE

\* no command has the exclusive claim on the session
ClaimFree(h) == term[h].claimedBy = 0

\* the runs whose command is executing on terminal h and capturing its stream
Capturing(h) ==
    {r \in Runners : run[r].terminal = h /\ run[r].pc \in {"running", "emitted"}}

\* an agent's execute_shell_command request reaches a listening MCPServer: the
\* run is bound to the terminal handle that server registered the tool with
RunShellCommand(r) ==
    /\ run[r].pc = "idle"
    /\ \E i \in Bound :
         LET h == inst[i].terminal
         IN run' = [run EXCEPT ![r] =
                [IdleRun EXCEPT !.pc = "queued", !.terminal = h,
                                !.staleAtCall = term[h].exitStatus # "undefined",
                                !.waited = ~ClaimFree(h)]]
    /\ UNCHANGED << revision, req, files, fcall, lifeVars >>
    /\ UNCHANGED << editVars, gateVars, termVars >>

\* the run takes the session: it fails on an exited terminal, and otherwise
\* waits for the exclusive claim and submits its command
AcquireSession(r) ==
    /\ run[r].pc = "queued"
    /\ LET h == run[r].terminal
       IN IF term[h].exitStatus # "undefined"
          THEN /\ run' = [run EXCEPT ![r].pc = "done", ![r].result = "console_error"]
               /\ UNCHANGED term
          ELSE /\ ClaimFree(h)
               /\ term' = [term EXCEPT ![h].claimedBy = r]
               /\ run' = [run EXCEPT ![r].pc = "running"]
    /\ UNCHANGED << terminals, sharedTerminal >>
    /\ UNCHANGED << revision, req, files, fcall, lifeVars >>
    /\ UNCHANGED << editVars, gateVars >>

\* the command of run r writes output to the terminal: every run capturing the
\* stream of that terminal receives it
EmitOutput(r) ==
    /\ run[r].pc = "running"
    /\ term[run[r].terminal].exitStatus = "undefined"
    /\ run' = [o \in Runners |->
          IF o \in Capturing(run[r].terminal)
          THEN [run[o] EXCEPT !.captured = Append(@, r),
                              !.pc = IF o = r THEN "emitted" ELSE @]
          ELSE run[o]]
    /\ UNCHANGED << revision, req, files, fcall, lifeVars >>
    /\ UNCHANGED << editVars, gateVars, termVars >>

\* the completion signal of the command arrives: the run returns its captured
\* output and gives up the claim
CommandCompletes(r) ==
    /\ run[r].pc = "emitted"
    /\ term[run[r].terminal].exitStatus = "undefined"
    /\ run' = [run EXCEPT ![r].pc = "done", ![r].result = "ok"]
    /\ term' = [term EXCEPT ![run[r].terminal].claimedBy = 0]
    /\ UNCHANGED << terminals, sharedTerminal >>
    /\ UNCHANGED << revision, req, files, fcall, lifeVars >>
    /\ UNCHANGED << editVars, gateVars >>

\* the console died while the command was executing: the run fails
SessionDies(r) ==
    /\ run[r].pc \in {"running", "emitted"}
    /\ term[run[r].terminal].exitStatus # "undefined"
    /\ run' = [run EXCEPT ![r].pc = "done", ![r].result = "console_error"]
    /\ term' = [term EXCEPT ![run[r].terminal].claimedBy = 0]
    /\ UNCHANGED << terminals, sharedTerminal >>
    /\ UNCHANGED << revision, req, files, fcall, lifeVars >>
    /\ UNCHANGED << editVars, gateVars >>

\* the result of the run has gone back to the agent
RunReturns(r) ==
    /\ run[r].pc = "done"
    /\ run' = [run EXCEPT ![r] = IdleRun]
    /\ UNCHANGED << revision, req, files, fcall, lifeVars >>
    /\ UNCHANGED << editVars, gateVars, termVars >>

\* ------------------------------------------------------------- tools -----
\* the tools registered with a zod shape in tools/file-tools.ts and
\* tools/edit-tools.ts
Tools == {"list_files_code", "read_file_code", "create_file_code", "replace_lines_code"}

Field(name, type, required) == [field |-> name, type |-> type, required |-> required]

\* file-tools.ts 184-187 and 237-243, edit-tools.ts 258-263 and 302-308: the
\* input shape of each tool (a field with .optional() is not required)
Schema(tool) ==
    CASE tool = "list_files_code" ->
           {Field("path", "string", TRUE), Field("recursive", "boolean", FALSE)}
      [] tool = "read_file_code" ->
           {Field("path", "string", TRUE), Field("encoding", "string", FALSE),
            Field("maxCharacters", "number", FALSE), Field("startLine", "number", FALSE),
            Field("endLine", "number", FALSE)}
      [] tool = "create_file_code" ->
           {Field("path", "string", TRUE), Field("content", "string", TRUE),
            Field("overwrite", "boolean", FALSE), Field("ignoreIfExists", "boolean", FALSE)}
      [] tool = "replace_lines_code" ->
           {Field("path", "string", TRUE), Field("startLine", "number", TRUE),
            Field("endLine", "number", TRUE), Field("content", "string", TRUE),
            Field("originalCode", "string", TRUE)}

FieldsOf(tool) == {e.field : e \in Schema(tool)}

\* a JSON value of another type than the shape asks for
WrongKind(type) == IF type = "string" THEN "number" ELSE "string"

Defects == {"none", "absent", "wrong_type"}

\* the arguments of an invocation: every field of the shape with a value of its
\* type, but field f absent or of the wrong type
ArgsWith(tool, f, defect) ==
    [x \in FieldsOf(tool) |->
        LET e == CHOOSE e \in Schema(tool) : e.field = x
        IN IF x = f /\ defect = "absent" THEN "absent"
           ELSE IF x = f /\ defect = "wrong_type" THEN WrongKind(e.type)
           ELSE e.type]

NoArgs == [x \in {} |-> "absent"]

\* faulty variant: only the presence of the required fields is checked
ValidInput_PresenceOnly(tool, args) ==
    \A e \in Schema(tool) : e.required => args[e.field] # "absent"

\* the shape passed to server.tool is what McpServer parses the arguments of a
\* tools/call with before it calls the handler: every field has a value of
\* its type, or is optional and absent
ValidInput(tool, args) ==
    \A e \in Schema(tool) :
        \/ args[e.field] = e.type
        \/ ~e.required /\ args[e.field] = "absent"

\* faulty variant: the handler swallows the error and reports success
ToolCatch_Swallow(outcome) == "returns"

\* edit-tools.ts 281-284 and 326-329, file-tools.ts 211-214 and 277-280: the
\* catch block of a tool handler logs the error and throws it again
ToolCatch(outcome) == outcome

\* ------------------------------------------------------------- routes ----
Requests == {1, 2}
Methods == {"GET", "POST", "DELETE"}

\* what a request to /mcp carries: no body, a JSON body that does not parse,
\* or a well-formed tools/call message
Bodies == {"none", "malformed", "call"}

\* server.ts 122-129 and 134-141
MethodNotAllowed == [status |-> 405, code |-> 0 - 32000, message |-> "Method not allowed."]

\* server.ts 87-94
InternalServerError == [status |-> 500, code |-> 0 - 32603, message |-> "Internal server error"]

\* express.json (server.ts 30) passes a body that does not parse to the error
\* handler of the framework, which answers 400 with an HTML page
BadRequest == [status |-> 400, code |-> 0, message |-> "Bad Request"]

\* the transport answers a POST that carries no JSON-RPC message
ParseError == [status |-> 400, code |-> 0 - 32700, message |-> "Parse error"]

\* McpServer answers a tools/call whose arguments do not parse
InvalidParams == [status |-> 200, code |-> 0 - 32602, message |-> "Invalid arguments"]

\* McpServer turns an error thrown by the handler into a result with isError
ToolError == [status |-> 200, code |-> 0, message |-> "isError"]

ToolResult == [status |-> 200, code |-> 0, message |-> "result"]

NoAnswer == [status |-> 0, code |-> 0, message |-> "none"]

IdleReq ==
    [pc |-> "idle", method |-> "none", body |-> "none", tool |-> "none",
     args |-> NoArgs, defect |-> "none", defectRequired |-> FALSE,
     answer |-> NoAnswer, headersSent |-> FALSE, responses |-> 0,
     reachedTransport |-> FALSE, transport |-> "none",
     handlerCalled |-> FALSE, handler |-> "none", afterFailure |-> FALSE]

\* res.writeHead / res.status(...).json(...) / res.end: a response is written
Answer(rq, a) ==
    [rq EXCEPT !.pc = "done", !.answer = a, !.headersSent = TRUE,
               !.responses = @ + 1]

\* a request to /mcp arrives at a listening server (express dispatch starts)
Receive(q, method, body, tool, f, defect) ==
    /\ req[q].pc = "idle"
    /\ Bound # {}
    /\ body = "call" => (tool \in Tools /\ f \in FieldsOf(tool))
    /\ req' = [req EXCEPT ![q] =
          [IdleReq EXCEPT
             !.pc = "json", !.method = method, !.body = body,
             !.tool = IF body = "call" THEN tool ELSE "none",
             !.args = IF body = "call" THEN ArgsWith(tool, f, defect) ELSE NoArgs,
             !.defect = IF body = "call" THEN defect ELSE "none",
             !.defectRequired =
                 body = "call" /\ \E e \in Schema(tool) : e.field = f /\ e.required,
             !.afterFailure = req[q].afterFailure]]
    /\ UNCHANGED << revision, run, files, fcall, lifeVars >>
    /\ UNCHANGED << editVars, gateVars, termVars >>

\* server.ts 30: app.use(express.json()) runs before every route, whatever the
\* method: a body that does not parse ends the request with the framework's 400
ExpressJson(q) ==
    /\ req[q].pc = "json"
    /\ req' = [req EXCEPT ![q] =
          IF req[q].body = "malformed" THEN Answer(req[q], BadRequest)
          ELSE [req[q] EXCEPT !.pc = "route"]]
    /\ UNCHANGED << revision, run, files, fcall, lifeVars >>
    /\ UNCHANGED << editVars, gateVars, termVars >>

\* server.ts 80-83, 120-130, 132-142: the route of the method. GET and DELETE
\* are answered at once; POST calls transport.handleRequest and awaits it
Route(q) ==
    /\ req[q].pc = "route"
    /\ req' = [req EXCEPT ![q] =
          IF req[q].method \in {"GET", "DELETE"} THEN Answer(req[q], MethodNotAllowed)
          ELSE [req[q] EXCEPT !.pc = "transport", !.reachedTransport = TRUE]]
    /\ UNCHANGED << revision, run, files, fcall, lifeVars >>
    /\ UNCHANGED << editVars, gateVars, termVars >>

\* faulty variant: the catch block answers without looking at headersSent
OnHandleRequestError_NoGuard(rq) == Answer(rq, InternalServerError)

\* server.ts 84-96: the catch block of the POST route
OnHandleRequestError(rq) ==
    IF ~rq.headersSent THEN Answer(rq, InternalServerError)
    ELSE [rq EXCEPT !.pc = "done"]

TransportOutcomes == {"handles", "throws", "throws_after_headers"}

\* server.ts 83: transport.handleRequest takes the request. It throws before
\* or after it has sent response headers, answers a request without a message
\* itself, or passes a tools/call on to McpServer
HandleRequest(q, outcome) ==
    /\ req[q].pc = "transport"
    /\ LET rq == [req[q] EXCEPT !.transport = outcome]
       IN req' = [req EXCEPT ![q] =
             IF outcome = "throws" THEN OnHandleRequestError(rq)
             ELSE IF outcome = "throws_after_headers"
                  THEN OnHandleRequestError(
                           [rq EXCEPT !.headersSent = TRUE, !.responses = @ + 1])
             ELSE IF rq.body = "none" THEN Answer(rq, ParseError)
             ELSE [rq EXCEPT !.pc = "validate"]]
    /\ UNCHANGED << revision, run, files, fcall, lifeVars >>
    /\ UNCHANGED << editVars, gateVars, termVars >>

\* McpServer parses the arguments with the shape of the tool: arguments that
\* do not parse are answered with an error and the handler is not called;
\* otherwise the handler is called (file-tools.ts 188, 244; edit-tools.ts 264, 309)
ValidateInput(q) ==
    /\ req[q].pc = "validate"
    /\ req' = [req EXCEPT ![q] =
          IF ValidInput(req[q].tool, req[q].args)
          THEN [req[q] EXCEPT !.pc = "handler", !.handlerCalled = TRUE]
          ELSE Answer(req[q], InvalidParams)]
    /\ UNCHANGED << revision, run, files, fcall, lifeVars >>
    /\ UNCHANGED << editVars, gateVars, termVars >>

HandlerOutcomes == {"returns", "throws"}

\* the handler settles (its try block returned, or its catch block ran);
\* McpServer answers with the result, or with an isError result for an error
HandlerSettles(q, outcome) ==
    /\ req[q].pc = "handler"
    /\ LET out == ToolCatch(outcome)
           rq == [req[q] EXCEPT !.handler = outcome]
       IN req' = [req EXCEPT ![q] =
             Answer(rq, IF out = "throws" THEN ToolError ELSE ToolResult)]
    /\ UNCHANGED << revision, run, files, fcall, lifeVars >>
    /\ UNCHANGED << editVars, gateVars, termVars >>

\* the connection of an answered request is over; the client may send another
Finished(q) ==
    /\ req[q].pc = "done"
    /\ req' = [req EXCEPT ![q] =
          [IdleReq EXCEPT !.afterFailure = req[q].handler = "throws"]]
    /\ UNCHANGED << revision, run, files, fcall, lifeVars >>
    /\ UNCHANGED << editVars, gateVars, termVars >>

\* ------------------------------------------------------------- files -----
Paths == {"a.txt", "b.txt"}

\* the UTF-16 code units of a content string: a letter, the byte order mark,
\* an unpaired surrogate, and the replacement character
FileChars == {"a", "U+FEFF", "U+D800"}
REPLACEMENT == "U+FFFD"

\* the contents create_file_code is called with
ContentLengths == {0, 1, 2}
Contents == UNION {[1..n -> FileChars] : n \in ContentLengths}

\* the maxCharacters read_file_code is called with
Budgets == {0, 1, 2}

\* UTF-8 of one code unit; an unpaired surrogate is encoded as U+FFFD
EncodeChar(c) ==
    CASE c = "a" -> << 97 >>
      [] c = LF -> << 10 >>
      [] c = "U+FEFF" -> << 239, 187, 191 >>
      [] c = "U+D800" -> << 239, 191, 189 >>
      [] c = REPLACEMENT -> << 239, 191, 189 >>

RECURSIVE Encode(_)
\* edit-tools.ts 137: new TextEncoder().encode(content)
Encode(cs) == IF cs = << >> THEN << >> ELSE EncodeChar(Head(cs)) \o Encode(Tail(cs))

RECURSIVE DecodeUtf8(_)
\* the UTF-8 decoder: a byte sequence to code units, U+FFFD for a byte that
\* starts no sequence
DecodeUtf8(bs) ==
    IF bs = << >> THEN << >>
    ELSE IF bs[1] = 97 THEN << "a" >> \o DecodeUtf8(Tail(bs))
    ELSE IF bs[1] = 10 THEN << LF >> \o DecodeUtf8(Tail(bs))
    ELSE IF Len(bs) >= 3 /\ SubSeq(bs, 1, 3) = << 239, 187, 191 >>
         THEN << "U+FEFF" >> \o DecodeUtf8(SubSeq(bs, 4, Len(bs)))
    ELSE IF Len(bs) >= 3 /\ SubSeq(bs, 1, 3) = << 239, 191, 189 >>
         THEN << REPLACEMENT >> \o DecodeUtf8(SubSeq(bs, 4, Len(bs)))
    ELSE << REPLACEMENT >> \o DecodeUtf8(Tail(bs))

\* file-tools.ts 102-103: new TextDecoder(encoding).decode(fileContent) for
\* utf-8: a byte order mark at the start is not part of the decoded string
Decode(bs) ==
    LET cs == DecodeUtf8(bs)
    IN IF cs # << >> /\ cs[1] = "U+FEFF" THEN Tail(cs) ELSE cs

RECURSIVE Split(_, _)
\* file-tools.ts 113: textContent.split('\n')
Split(cs, sep) ==
    IF \A i \in 1..Len(cs) : cs[i] # sep THEN << cs >>
    ELSE LET k == CHOOSE i \in 1..Len(cs) :
                      cs[i] = sep /\ \A j \in 1..(i - 1) : cs[j] # sep
         IN << SubSeq(cs, 1, k - 1) >> \o Split(SubSeq(cs, k + 1, Len(cs)), sep)

Failed(error) == [ok |-> FALSE, text |-> << >>, error |-> error]
Text(cs) == [ok |-> TRUE, text |-> cs, error |-> "none"]

\* file-tools.ts 95-135: readWorkspaceFile with an encoding, on the bytes read
ReadWorkspaceFile(bytes, maxCharacters, startLine, endLine) ==
    LET textContent == Decode(bytes)
        lines == Split(textContent, LF)
        effectiveStartLine == IF startLine >= 0 THEN startLine ELSE 0
        effectiveEndLine == IF endLine >= 0 THEN Min(endLine, Len(lines) - 1)
                            ELSE Len(lines) - 1
    IN IF Len(textContent) > maxCharacters THEN Failed("exceeds_limit")
       ELSE IF startLine >= 0 \/ endLine >= 0
            THEN IF effectiveStartLine >= Len(lines) THEN Failed("start_out_of_range")
                 ELSE IF effectiveEndLine < effectiveStartLine
                      THEN Failed("end_before_start")
                 ELSE Text(Join(SubSeq(lines, effectiveStartLine + 1,
                                       effectiveEndLine + 1), LF))
       ELSE Text(textContent)

\* file-tools.ts 248-249: the 1-based line numbers of the tool made 0-based
ZeroBased(n) == IF n > 0 THEN n - 1 ELSE n

\* file-tools.ts 241-242: the default of startLine and endLine
DEFAULT_LINE == 0 - 1

\* the values of startLine and endLine an agent passes
ReadLineNumbers == DEFAULT_LINE..(MaxLines + 2)

\* file-tools.ts 14
DEFAULT_MAX_CHARACTERS == 100000

\* the texts of the files that are read by line range, and the budgets the
\* agent passes (the last one is the default of maxCharacters)
ReadChars == {"a", LF}
ReadTextLengths == {0, 1, 2, 3, 4}
ReadTexts == UNION {[1..n -> ReadChars] : n \in ReadTextLengths}
ReadBudgets == {1, 2, DEFAULT_MAX_CHARACTERS}

\* a workspace file: its bytes, and (for the claims) the string it was created
\* from and whether that creation was on a path that did not exist
Absent == [exists |-> FALSE, bytes |-> << >>, source |-> << >>, fresh |-> FALSE]
FileOf(bytes, source, fresh) ==
    [exists |-> TRUE, bytes |-> bytes, source |-> source, fresh |-> fresh]

IdleFileCall ==
    [pc |-> "idle", op |-> "none", path |-> "none", content |-> << >>,
     overwrite |-> FALSE, ignoreIfExists |-> FALSE, maxCharacters |-> 0,
     startLine |-> DEFAULT_LINE, endLine |-> DEFAULT_LINE,
     existed |-> FALSE, before |-> << >>, result |-> "none", text |-> << >>]

\* create_file_code is called (edit-tools.ts 264-269): createWorkspaceFile runs
\* up to `await applyEdit` (113-147)
CreateFileCall(path, content, overwrite, ignoreIfExists) ==
    /\ fcall.pc = "idle"
    /\ fcall' = [IdleFileCall EXCEPT
          !.pc = "apply", !.op = "create", !.path = path, !.content = content,
          !.overwrite = overwrite, !.ignoreIfExists = ignoreIfExists,
          !.existed = files[path].exists, !.before = files[path].bytes]
    /\ UNCHANGED << revision, run, req, files, lifeVars >>
    /\ UNCHANGED << editVars, gateVars, termVars >>

\* edit-tools.ts 140-144: WorkspaceEdit.createFile with overwrite and
\* ignoreIfExists as the host applies it: an existing file is overwritten
\* with overwrite (which wins over ignoreIfExists), left alone with
\* ignoreIfExists, and makes the edit fail with neither
CreateWrites(exists, overwrite, ignoreIfExists) == ~exists \/ overwrite
CreateApplies(exists, overwrite, ignoreIfExists) ==
    ~exists \/ overwrite \/ ignoreIfExists

\* faulty variant: the answer of applyEdit is not looked at
OnApplyEdit_IgnoreSuccess(success) == "open"

\* edit-tools.ts 149-158: what createWorkspaceFile does with the answer
OnApplyEdit(success) == IF success THEN "open" ELSE "failed"

\* applyEdit settles (edit-tools.ts 147-158)
ApplyEditSettles ==
    /\ fcall.pc = "apply"
    /\ LET f == files[fcall.path]
           success == CreateApplies(f.exists, fcall.overwrite, fcall.ignoreIfExists)
           next == OnApplyEdit(success)
       IN /\ files' = IF CreateWrites(f.exists, fcall.overwrite, fcall.ignoreIfExists)
                      THEN [files EXCEPT ![fcall.path] =
                                FileOf(Encode(fcall.content), fcall.content, ~f.exists)]
                      ELSE files
          /\ fcall' = IF next = "open" THEN [fcall EXCEPT !.pc = "open"]
                      ELSE [fcall EXCEPT !.pc = "returned", !.result = "failed"]
    /\ UNCHANGED << revision, run, req, lifeVars >>
    /\ UNCHANGED << editVars, gateVars, termVars >>

\* edit-tools.ts 153: openTextDocument resolved
CreatedDocumentOpened ==
    /\ fcall.pc = "open"
    /\ fcall' = [fcall EXCEPT !.pc = "show"]
    /\ UNCHANGED << revision, run, req, files, lifeVars >>
    /\ UNCHANGED << editVars, gateVars, termVars >>

\* edit-tools.ts 154 and 271-280: showTextDocument resolved, the created file
\* is the active editor, and the tool returns its confirmation
CreatedDocumentShown ==
    /\ fcall.pc = "show"
    /\ fcall' = [fcall EXCEPT !.pc = "returned", !.result = "ok"]
    /\ activeIsDoc' = FALSE
    /\ UNCHANGED << doc, isDirty, call >>
    /\ UNCHANGED << revision, run, req, files, lifeVars >>
    /\ UNCHANGED << gateVars, termVars >>

\* read_file_code is called with a path, maxCharacters and the 1-based
\* startLine and endLine, the encoding at its default (file-tools.ts 239-253):
\* readWorkspaceFile runs up to `await fs.readFile` (75-97)
ReadFileCall(path, maxCharacters, startLine, endLine) ==
    /\ fcall.pc = "idle"
    /\ fcall' = [IdleFileCall EXCEPT
          !.pc = "read", !.op = "read", !.path = path,
          !.maxCharacters = maxCharacters,
          !.startLine = startLine, !.endLine = endLine]
    /\ UNCHANGED << revision, run, req, files, lifeVars >>
    /\ UNCHANGED << editVars, gateVars, termVars >>

\* fs.readFile settles (file-tools.ts 97-153, 253-281): it rejects for a
\* missing file; otherwise the text is decoded, checked and returned
ReadFileSettles ==
    /\ fcall.pc = "read"
    /\ LET f == files[fcall.path]
           r == IF f.exists
                THEN ReadWorkspaceFile(f.bytes, fcall.maxCharacters,
                                       ZeroBased(fcall.startLine),
                                       ZeroBased(fcall.endLine))
                ELSE Failed("not_found")
       IN fcall' = [fcall EXCEPT !.pc = "returned",
                                 !.result = IF r.ok THEN "ok" ELSE "failed",
                                 !.text = r.text]
    /\ UNCHANGED << revision, run, req, files, lifeVars >>
    /\ UNCHANGED << editVars, gateVars, termVars >>

\* the tool result has gone back to the agent
FileReturns ==
    /\ fcall.pc = "returned"
    /\ fcall' = IdleFileCall
    /\ UNCHANGED << revision, run, req, files, lifeVars >>
    /\ UNCHANGED << editVars, gateVars, termVars >>

\* ------------------------------------------------------------- Init ------
InitEdit ==
    /\ doc \in InitDocs
    /\ isDirty = FALSE
    /\ activeIsDoc = FALSE
    /\ call = [c \in Callers |-> IdleCall]

\* extension.ts 9-13: the module state before activation
InitGate ==
    /\ serverEnabled = FALSE
    /\ persisted = FALSE
    /\ mcpServer = 0
    /\ inst = [i \in Instances |-> NewInstance]
    /\ created = 0
    /\ portTaken = FALSE
    /\ toggle = [t \in Toggles |-> IdleToggle]

\* the extension is activated with no saved state and the default setting:
\* no server, the commands registered (extension.ts 118-194)
InitLife ==
    /\ phase = "active"
    /\ defaultEnabled = FALSE
    /\ persistedSet = FALSE
    /\ act = IdleThread
    /\ deact = IdleThread
    /\ disp = IdleThread
    /\ client = IdleClient

\* the workspace file of the runs that edit nothing
OneLineDoc == [lines |-> << << "a" >> >>, eol |-> LF]

\* extension.ts 11: no shared terminal; the window has no terminal open
InitConsole ==
    /\ terminals = << >>
    /\ term = [h \in Handles |-> NoTerminal]
    /\ sharedTerminal = 0
    /\ run = [r \in Runners |-> IdleRun]

\* no request is in flight, the workspace folder is empty
InitTools ==
    /\ req = [q \in Requests |-> IdleReq]
    /\ files = [p \in Paths |-> Absent]
    /\ fcall = IdleFileCall

Init ==
    /\ InitEdit /\ InitGate /\ InitConsole /\ InitTools /\ InitLife
    /\ revision \in Revisions

\* the extension as built from the first MCPServer class of server.ts
InitFirstRevision == Init /\ revision = "first"

\* the same, with the one-line workspace file
InitFirst == Init /\ doc = OneLineDoc /\ revision = "first"

InitGateOnly == InitFirst

\* the extension as built from any of the MCPServer classes of server.ts
InitAnyRevision == Init /\ doc = OneLineDoc

\* the extension installed and not yet activated (extension.ts 9-13), with
\* either value of the defaultEnabled setting
InitUnloaded ==
    /\ InitEdit /\ InitGate /\ InitConsole /\ InitTools
    /\ doc = OneLineDoc
    /\ revision = "first"
    /\ phase = "unloaded"
    /\ defaultEnabled \in BOOLEAN
    /\ persistedSet = FALSE
    /\ act = IdleThread
    /\ deact = IdleThread
    /\ disp = IdleThread
    /\ client = IdleClient

\* ------------------------------------------------------------- Spec ------
\* every action of the model
Next ==
    \/ \E c \in Callers :
         \E startLine \in LineNumbers, endLine \in LineNumbers,
            content \in Texts, originalCode \in Texts :
              Call(c, startLine, endLine, content, originalCode)
    \/ \E c \in Callers : AfterOpen(c)
    \/ \E c \in Callers : AfterShow(c)
    \/ \E c \in Callers, accept \in BOOLEAN : AfterEdit(c, accept)
    \/ \E c \in Callers, outcome \in SaveOutcomes : AfterSave(c, outcome)
    \/ \E c \in Callers : Respond(c)
    \/ FocusOther
    \/ \E t \in Toggles : ToggleServerState(t)
    \/ \E t \in Toggles, ok \in BOOLEAN : AfterConnect(t, ok)
    \/ \E t \in Toggles : ListenCallback(t)
    \/ \E t \in Toggles : HttpCloseCallback(t)
    \/ \E t \in Toggles : TransportClosed(t)
    \/ \E t \in Toggles : ServerClosed(t)
    \/ OtherProcess
    \/ \E h \in Handles : ExternalExit(h)
    \/ UserOpensTerminal
    \/ \E r \in Runners : RunShellCommand(r)
    \/ \E r \in Runners : AcquireSession(r)
    \/ \E r \in Runners : EmitOutput(r)
    \/ \E r \in Runners : CommandCompletes(r)
    \/ \E r \in Runners : SessionDies(r)
    \/ \E r \in Runners : RunReturns(r)
    \/ \E q \in Requests, method \in Methods, body \in Bodies, tool \in Tools,
          f \in UNION {FieldsOf(x) : x \in Tools}, defect \in Defects :
            Receive(q, method, body, tool, f, defect)
    \/ \E q \in Requests : ExpressJson(q)
    \/ \E q \in Requests : Route(q)
    \/ \E q \in Requests, outcome \in TransportOutcomes : HandleRequest(q, outcome)
    \/ \E q \in Requests : ValidateInput(q)
    \/ \E q \in Requests, outcome \in HandlerOutcomes : HandlerSettles(q, outcome)
    \/ \E q \in Requests : Finished(q)
    \/ \E path \in Paths, content \in Contents, overwrite \in BOOLEAN,
          ignoreIfExists \in BOOLEAN :
            CreateFileCall(path, content, overwrite, ignoreIfExists)
    \/ ApplyEditSettles
    \/ CreatedDocumentOpened
    \/ CreatedDocumentShown
    \/ \E path \in Paths, maxCharacters \in Budgets, startLine, endLine \in ReadLineNumbers :
            ReadFileCall(path, maxCharacters, startLine, endLine)
    \/ ReadFileSettles
    \/ FileReturns
    \/ Activate
    \/ \E ok \in BOOLEAN : ActivateAfterConnect(ok)
    \/ ActivateListenCallback
    \/ Deactivate
    \/ DeactivateHttpCloseCallback
    \/ DeactivateTransportClosed
    \/ DeactivateServerClosed
    \/ DisposeSubscriptions
    \/ DisposableHttpCloseCallback
    \/ DisposableTransportClosed
    \/ DisposableServerClosed
    \/ HostExits
    \/ HostCrashes
    \/ ClientConstructs
    \/ ClientSetsCallback
    \/ ClientSetupTools
    \/ ClientStarts
    \/ \E ok \in BOOLEAN : ClientAfterConnect(ok)
    \/ ClientListenCallback

Spec == Init /\ [][Next]_vars

\* ------------------------------------------------------------- SpecEdit --
\* one agent calling replace_lines_code, one call after the other; after a
\* call has returned the agent repeats it unchanged or takes the result
NewCall(c) ==
    /\ call[c].pc = "idle"
    /\ \E startLine \in LineNumbers, endLine \in LineNumbers,
          content \in Texts, originalCode \in Texts :
            Call(c, startLine, endLine, content, originalCode)

RepeatCall(c) ==
    /\ call[c].pc = "returned"
    /\ Call(c, call[c].startLine, call[c].endLine, call[c].content, call[c].originalCode)

Edited(c) == \E accept \in BOOLEAN : AfterEdit(c, accept)

Saved(c) == \E outcome \in SaveOutcomes : AfterSave(c, outcome)

NextEdit ==
    \/ NewCall(1)
    \/ RepeatCall(1)
    \/ AfterOpen(1)
    \/ AfterShow(1)
    \/ Edited(1)
    \/ Saved(1)
    \/ Respond(1)

SpecEdit == InitFirstRevision /\ [][NextEdit]_vars

\* --------------------------------------------------------- SpecEditConc --
\* two agents calling replace_lines_code on the same file with one-line
\* texts; every await of a call is a point where the other call may run
ConcLineNumbers == 0..(MaxLines - 1)
ConcTexts == InputLines

NewCallConc(c) ==
    /\ call[c].pc = "idle"
    /\ \E startLine \in ConcLineNumbers, endLine \in ConcLineNumbers,
          content \in ConcTexts, originalCode \in ConcTexts :
            Call(c, startLine, endLine, content, originalCode)

NextEditConc ==
    \/ \E c \in Callers : NewCallConc(c)
    \/ \E c \in Callers : AfterOpen(c)
    \/ \E c \in Callers : AfterShow(c)
    \/ \E c \in Callers : Edited(c)
    \/ \E c \in Callers : Saved(c)
    \/ \E c \in Callers : Respond(c)
    \/ FocusOther

SpecEditConc == InitFirstRevision /\ [][NextEditConc]_vars

\* ------------------------------------------------------------- SpecGate --
\* the operator toggling the server; a toggle may be invoked while another one
\* is suspended at an await
ConnectSettles(t) == \E ok \in BOOLEAN : AfterConnect(t, ok)

NextGate ==
    \/ \E t \in Toggles : ToggleServerState(t)
    \/ \E t \in Toggles : ConnectSettles(t)
    \/ \E t \in Toggles : ListenCallback(t)
    \/ \E t \in Toggles : HttpCloseCallback(t)
    \/ \E t \in Toggles : TransportClosed(t)
    \/ \E t \in Toggles : ServerClosed(t)
    \/ OtherProcess

SpecGate == InitGateOnly /\ [][NextGate]_vars

\* the event loop runs every callback and continuation that is ready: a
\* settled connect, the listen callback of a bound server, the close callback,
\* the settled closes of the transport and of the MCP server
FairGate ==
    \A t \in Toggles :
        /\ WF_vars(ConnectSettles(t))
        /\ WF_vars(ListenCallback(t))
        /\ WF_vars(HttpCloseCallback(t))
        /\ WF_vars(TransportClosed(t))
        /\ WF_vars(ServerClosed(t))

SpecGateFair == InitGateOnly /\ [][NextGate]_vars /\ FairGate

\* the same, for each of the MCPServer classes of server.ts
SpecRevisions == InitAnyRevision /\ [][NextGate]_vars

\* ---------------------------------------------------------- SpecConsole --
\* one operator toggling the server, while terminals exit and the user opens
\* terminals of their own
NextConsole ==
    \/ ToggleServerState(1)
    \/ ConnectSettles(1)
    \/ ListenCallback(1)
    \/ HttpCloseCallback(1)
    \/ TransportClosed(1)
    \/ ServerClosed(1)
    \/ \E h \in Handles : ExternalExit(h)
    \/ UserOpensTerminal

SpecConsole == InitFirst /\ [][NextConsole]_vars

\* ------------------------------------------------------------ SpecShell --
\* one operator toggling the server, terminals exiting, and two agents
\* running shell commands
NextShell ==
    \/ ToggleServerState(1)
    \/ ConnectSettles(1)
    \/ ListenCallback(1)
    \/ HttpCloseCallback(1)
    \/ TransportClosed(1)
    \/ ServerClosed(1)
    \/ \E h \in Handles : ExternalExit(h)
    \/ \E r \in Runners : RunShellCommand(r)
    \/ \E r \in Runners : AcquireSession(r)
    \/ \E r \in Runners : EmitOutput(r)
    \/ \E r \in Runners : CommandCompletes(r)
    \/ \E r \in Runners : SessionDies(r)
    \/ \E r \in Runners : RunReturns(r)

SpecShell == InitFirst /\ [][NextShell]_vars

\* ------------------------------------------------------------- SpecHttp --
\* one operator toggling the server and a client sending requests to /mcp,
\* one after the other
NewRequest(q) ==
    \/ \E method \in Methods, body \in Bodies \ {"call"} :
          Receive(q, method, body, "none", "none", "none")
    \/ \E method \in Methods, tool \in Tools :
          \/ Receive(q, method, "call", tool, "path", "none")
          \/ \E f \in FieldsOf(tool), defect \in Defects \ {"none"} :
                Receive(q, method, "call", tool, f, defect)

TransportSettles(q) == \E outcome \in TransportOutcomes : HandleRequest(q, outcome)

HandlerDone(q) == \E outcome \in HandlerOutcomes : HandlerSettles(q, outcome)

NextHttp ==
    \/ ToggleServerState(1)
    \/ ConnectSettles(1)
    \/ ListenCallback(1)
    \/ HttpCloseCallback(1)
    \/ TransportClosed(1)
    \/ ServerClosed(1)
    \/ NewRequest(1)
    \/ ExpressJson(1)
    \/ Route(1)
    \/ TransportSettles(1)
    \/ ValidateInput(1)
    \/ HandlerDone(1)
    \/ Finished(1)

SpecHttp == InitFirst /\ [][NextHttp]_vars

\* ------------------------------------------------------------ SpecFiles --
\* one agent calling create_file_code and read_file_code, one call after the
\* other, in a workspace folder that starts empty
NewCreate ==
    \E path \in Paths, content \in Contents, overwrite \in BOOLEAN,
       ignoreIfExists \in BOOLEAN :
         CreateFileCall(path, content, overwrite, ignoreIfExists)

NewRead ==
    \E path \in Paths, maxCharacters \in Budgets :
        ReadFileCall(path, maxCharacters, DEFAULT_LINE, DEFAULT_LINE)

NextFiles ==
    \/ NewCreate
    \/ ApplyEditSettles
    \/ CreatedDocumentOpened
    \/ CreatedDocumentShown
    \/ NewRead
    \/ ReadFileSettles
    \/ FileReturns

SpecFiles == InitFirst /\ [][NextFiles]_vars

\* ------------------------------------------------------------- SpecRead --
\* an agent reading line ranges of a text file of the workspace
InitRead ==
    /\ InitEdit /\ InitGate /\ InitConsole /\ InitLife
    /\ doc = OneLineDoc
    /\ revision = "first"
    /\ req = [q \in Requests |-> IdleReq]
    /\ fcall = IdleFileCall
    /\ \E text \in ReadTexts :
          files = [p \in Paths |->
                     IF p = "a.txt" THEN FileOf(Encode(text), text, TRUE) ELSE Absent]

NewRangeRead ==
    \E path \in Paths, maxCharacters \in ReadBudgets, startLine, endLine \in ReadLineNumbers :
        ReadFileCall(path, maxCharacters, startLine, endLine)

NextRead ==
    \/ NewRangeRead
    \/ ReadFileSettles
    \/ FileReturns

SpecRead == InitRead /\ [][NextRead]_vars

\* ------------------------------------------------------------- SpecHost --
\* the host activating and deactivating the extension, one operator toggling
\* the server, and the extension host process restarting
ActivateConnectSettles == \E ok \in BOOLEAN : ActivateAfterConnect(ok)

NextHost ==
    \/ Activate
    \/ ActivateConnectSettles
    \/ ActivateListenCallback
    \/ ToggleServerState(1)
    \/ ConnectSettles(1)
    \/ ListenCallback(1)
    \/ HttpCloseCallback(1)
    \/ TransportClosed(1)
    \/ ServerClosed(1)
    \/ OtherProcess
    \/ Deactivate
    \/ DeactivateHttpCloseCallback
    \/ DeactivateTransportClosed
    \/ DeactivateServerClosed
    \/ DisposeSubscriptions
    \/ DisposableHttpCloseCallback
    \/ DisposableTransportClosed
    \/ DisposableServerClosed
    \/ HostExits
    \/ HostCrashes

SpecHost == InitUnloaded /\ [][NextHost]_vars

\* --------------------------------------------- claims on replace_lines ---
\* the call of the single agent, and what it found when it started
TheCall == call[1]
Returned == TheCall.pc = "returned"
DocAtCall == [lines |-> TheCall.pre, eol |-> doc.eol]
RangeValidAtCall ==
    /\ ~StartOutOfRange(DocAtCall, TheCall.startLine)
    /\ ~EndOutOfRange(DocAtCall, TheCall.startLine, TheCall.endLine)
Untouched == doc.lines = TheCall.pre /\ ~TheCall.applied /\ TheCall.saved = "none"

\* C1 (as claimed): a call whose originalCode differs in any way from the text
\* that lines [startLine, endLine] of the document hold fails with the
\* validation error, and the document is neither edited nor saved: once the
\* document is opened, such a call has returned with that error.
C1_StaleContentRejected ==
    (/\ TheCall.pc \in {"show", "edit", "save", "returned"}
     /\ RangeValidAtCall
     /\ RangeText(DocAtCall, TheCall.startLine, TheCall.endLine) # TheCall.originalCode)
        => (Returned /\ TheCall.result = "validation_failed" /\ Untouched)

C4_RepeatFailsStale ==
    (Returned /\ TheCall.repeat /\ TheCall.prevChanged)
        => (TheCall.result = "validation_failed" /\ Untouched)

\* C4 (amended): such a repeated call fails and leaves the document as the
\* first call left it; it fails with the validation error, or with the
\* end-line error when the first call left fewer than endLine + 1 lines.
C4_RepeatFails ==
    (Returned /\ TheCall.repeat /\ TheCall.prevChanged)
        => /\ Untouched
           /\ IF TheCall.endLine >= Len(TheCall.pre)
              THEN TheCall.result = "end_out_of_range"
              ELSE TheCall.result = "validation_failed"

C4_Witness ==
    /\ Returned
    /\ TheCall.repeat
    /\ TheCall.prevChanged
    /\ TheCall.result = "validation_failed"

\* C5 (as claimed): a call with a valid range passes the comparison exactly
\* when originalCode is the in-range lines joined by the document's own line
\* separator (CRLF between the lines of a CRLF document).
C5_ComparedWithDocumentEol ==
    (Returned /\ RangeValidAtCall) =>
        (TheCall.result # "validation_failed"
           <=> TheCall.originalCode
                 = RangeText(DocAtCall, TheCall.startLine, TheCall.endLine))

\* C7 (as claimed): when the edit was applied and the save did not succeed
\* (it answered false, or it threw), the call does not report success.
C7_SaveFailureSurfaced ==
    (Returned /\ TheCall.applied /\ TheCall.saved \in {"not_saved", "throws"})
        => TheCall.result # "ok"

\* C6 (as claimed): in any interleaving of two calls, an edit is applied only
\* if the text in its range at the moment of application equals its originalCode.
C6_AppliedOnlyIfStillMatching ==
    \A c \in Callers : call[c].applied => call[c].matchedAtApply

\* --------------------------------------------- claims on the lifecycle ---
\* C8 (as claimed): in every reachable state serverEnabled = true implies that
\* the HTTP server of the current instance is listening.
C8_EnabledImpliesListening ==
    serverEnabled => (mcpServer # 0 /\ inst[mcpServer].httpServer = "listening")

\* an enabling toggle has failed: start() threw, or the bind failed
EnableFailed(t) ==
    /\ toggle[t].enabling
    /\ toggle[t].self # 0
    /\ \/ toggle[t].pc = "threw"
       \/ toggle[t].pc = "start_listen" /\ inst[toggle[t].self].httpServer = "failed"

\* C9 (as claimed): when enabling has failed and no other toggle has been
\* invoked since, the state is Disabled: serverEnabled and the persisted flag
\* are false and no server instance is retained.
C9_FailedEnableLeavesDisabled ==
    \A t \in Toggles :
        (EnableFailed(t) /\ mcpServer = toggle[t].self
           /\ \A o \in Toggles \ {t} : toggle[o].pc = "idle")
            => (~serverEnabled /\ ~persisted /\ mcpServer = 0)

\* C10 (as claimed): at most one HTTP socket is bound, and a bound socket
\* belongs to the instance mcpServer refers to.
C10_OneSocketOfCurrentInstance ==
    /\ Cardinality(Bound) <= 1
    /\ \A i \in Bound : mcpServer = i

\* ------------------------------------------------- claims on the console -
\* the live terminals that carry the name of the extension's terminal
LiveShellTerminals == {h \in Live : term[h].name = TERMINAL_NAME}

\* C11: after any sequence of getExtensionTerminal calls and terminal exits
\* at most one live terminal named 'MCP Shell Commands' exists (a live one is
\* reused; one is created only when no live one exists).
C11_AtMostOneLiveTerminal == Cardinality(LiveShellTerminals) <= 1

\* three calls: the first created a terminal, which exited; the second created
\* another, which the third reused
C11_Witness ==
    /\ created = 3
    /\ inst[1].terminal # inst[2].terminal
    /\ inst[2].terminal = inst[3].terminal
    /\ term[inst[1].terminal].exitStatus = "exited"
    /\ LiveShellTerminals = {inst[3].terminal}

C13_NextRunUsesLiveSession ==
    \A r \in Runners :
        run[r].pc = "done" => (~run[r].staleAtCall /\ run[r].terminal \in Handles)

\* ------------------------------------------------- claims on the routes --
\* C14 (as claimed): every GET and every DELETE request on /mcp is answered
\* with 405 and the error {code: -32000, message: 'Method not allowed.'},
\* whatever the request carries, and reaches neither the transport nor a
\* tool handler.
C14_GetDeleteAnswered405 ==
    \A q \in Requests :
        (req[q].pc = "done" /\ req[q].method \in {"GET", "DELETE"})
            => /\ req[q].answer = MethodNotAllowed
               /\ ~req[q].reachedTransport
               /\ ~req[q].handlerCalled

\* C15: every POST /mcp request gets exactly one response: when
\* transport.handleRequest throws before response headers were sent the route
\* answers 500 with {code: -32603, message: 'Internal server error'}; when the
\* headers were sent it writes nothing more; no request ends unanswered.
C15_PostAnsweredOnce ==
    \A q \in Requests :
        /\ req[q].responses <= 1
        /\ (req[q].pc = "done" /\ req[q].method = "POST")
              => /\ req[q].responses = 1
                 /\ req[q].headersSent
                 /\ req[q].transport = "throws" => req[q].answer = InternalServerError
                 /\ req[q].transport = "throws_after_headers" => req[q].answer = NoAnswer

C15_Witness ==
    /\ req[1].pc = "done"
    /\ req[1].method = "POST"
    /\ req[1].transport = "throws"
    /\ req[1].responses = 1
    /\ req[1].answer = InternalServerError

\* C17: an invocation of a registered tool whose input lacks a required field
\* or has a field of the wrong type is answered with a failure, and the
\* handler of the tool is never called.
C17_InvalidInputNeverReachesHandler ==
    \A q \in Requests :
        (/\ req[q].body = "call"
         /\ \/ req[q].defect = "wrong_type"
            \/ req[q].defect = "absent" /\ req[q].defectRequired)
            => /\ ~req[q].handlerCalled
               /\ req[q].pc # "handler"
               /\ (req[q].pc = "done" /\ req[q].transport = "handles")
                     => req[q].answer = InvalidParams

\* a call of replace_lines_code without its originalCode has been answered
C17_Witness ==
    /\ req[1].pc = "done"
    /\ req[1].tool = "replace_lines_code"
    /\ req[1].defect = "absent"
    /\ req[1].args["originalCode"] = "absent"
    /\ ~req[1].handlerCalled
    /\ req[1].answer = InvalidParams

\* C18: an error thrown by a tool handler becomes a failure result answered
\* to the request of that call; the step leaves the HTTP server, the server
\* instance and the enabled state as they were.
C18_HandlerErrorIsFailureResult ==
    [][\A q \in Requests :
         (req[q].pc = "handler" /\ req'[q].pc = "done" /\ req'[q].handler = "throws")
            => /\ req'[q].answer = ToolError
               /\ req'[q].responses = 1
               /\ serverEnabled' = serverEnabled
               /\ mcpServer' = mcpServer
               /\ inst' = inst]_vars

\* a request is served with a result after the handler of the request before
\* it on the same connection threw
C18_Witness ==
    /\ req[1].afterFailure
    /\ req[1].pc = "done"
    /\ req[1].answer = ToolResult

\* C16 (as claimed): whenever MCPServer.start has bound a listening socket,
\* the socket is bound to the loopback address 127.0.0.1 and never to the
\* any-interface address.
C16_BoundToLoopbackOnly ==
    \A i \in Bound : inst[i].host = "127.0.0.1"

\* ---------------------------------------------- claims on the file tools -
\* C19: create_file_code on a path that exists fails exactly when neither
\* overwrite nor ignoreIfExists is set; without overwrite the file keeps the
\* bytes it had (also when the call fails), with overwrite its bytes become
\* those of the given content.
C19_CreateOnExistingPath ==
    (fcall.op = "create" /\ fcall.pc = "returned" /\ fcall.existed)
        => /\ fcall.result = "failed" <=> (~fcall.overwrite /\ ~fcall.ignoreIfExists)
           /\ ~fcall.overwrite => files[fcall.path].bytes = fcall.before
           /\ fcall.overwrite =>
                 /\ files[fcall.path].bytes = Encode(fcall.content)
                 /\ files[fcall.path].source = fcall.content

\* an existing file has been overwritten with other content
C19_Witness ==
    /\ fcall.op = "create"
    /\ fcall.pc = "returned"
    /\ fcall.existed
    /\ fcall.overwrite
    /\ fcall.result = "ok"
    /\ files[fcall.path].bytes # fcall.before

\* C20 (as claimed): read_file_code with utf-8 on a file that create_file_code
\* created on a new path returns exactly the content it was created with
\* when the content has at most maxCharacters characters, and fails when it
\* has more.
C20_CreateReadRoundTrip ==
    (/\ fcall.op = "read"
     /\ fcall.pc = "returned"
     /\ files[fcall.path].exists
     /\ files[fcall.path].fresh)
        => IF Len(files[fcall.path].source) <= fcall.maxCharacters
           THEN fcall.result = "ok" /\ fcall.text = files[fcall.path].source
           ELSE fcall.result = "failed"

\* ------------------------------------------------------------ SpecSetup --
\* the host activating the extension, one operator toggling the server, and
\* a direct user of the MCPServer class
ClientConnectSettles == \E ok \in BOOLEAN : ClientAfterConnect(ok)

NextSetup ==
    \/ Activate
    \/ ActivateConnectSettles
    \/ ActivateListenCallback
    \/ ToggleServerState(1)
    \/ ConnectSettles(1)
    \/ ListenCallback(1)
    \/ HttpCloseCallback(1)
    \/ TransportClosed(1)
    \/ ServerClosed(1)
    \/ ClientConstructs
    \/ ClientSetsCallback
    \/ ClientSetupTools
    \/ ClientStarts
    \/ ClientConnectSettles
    \/ ClientListenCallback

SpecSetup == InitUnloaded /\ [][NextSetup]_vars

\* ------------------------------------------------ claims on the host -----
\* a step of toggleServerState up to its first await
ToggleStep == toggle' # toggle /\ persistedSet' /\ persisted' = serverEnabled'

\* the step in which the host calls activate()
ActivateStep == phase = "unloaded" /\ phase' # "unloaded"

\* C21: activate() takes serverEnabled from the persisted 'mcpServerEnabled'
\* flag, or from the defaultEnabled setting when no flag is stored; it
\* constructs and starts a server exactly when that value is true (so none on
\* a first install with the default setting, and one after a restart that
\* follows an enabling toggle); after activation serverEnabled and the stored
\* flag are changed by toggleServerState only.
C21_ActivationLoadsPersistedState ==
    [][ /\ ActivateStep =>
            /\ serverEnabled' = (IF persistedSet THEN persisted ELSE defaultEnabled)
            /\ (mcpServer' # 0) <=> serverEnabled'
            /\ serverEnabled' => /\ act'.pc = "start_connect"
                                 /\ act'.self = mcpServer'
                                 /\ created' = created + 1
            /\ ~serverEnabled' => created' = created
            /\ (~persistedSet /\ ~defaultEnabled) => mcpServer' = 0
        /\ (serverEnabled' # serverEnabled /\ phase # "unloaded" /\ phase' # "unloaded")
              => ToggleStep
        /\ (persisted' # persisted \/ persistedSet' # persistedSet) => ToggleStep
      ]_vars

\* C21 witness: the default setting is false, a toggle of an earlier activation
\* enabled the server, and this activation has built and is starting a server
C21_Witness ==
    /\ ~defaultEnabled
    /\ persistedSet /\ persisted
    /\ phase = "activating"
    /\ act.pc = "start_listen"
    /\ mcpServer = act.self
    /\ inst[mcpServer].httpServer = "listening"
    /\ toggle[1].pc = "idle"

\* C22 (as claimed): when deactivate() has settled and the subscriptions are
\* disposed, the terminal of the server instance that deactivate() stopped has
\* been disposed, whether getExtensionTerminal created or reused it.
C22_SessionDisposedOnShutdown ==
    (ShutDown /\ deact.self # 0)
        => term[inst[deact.self].terminal].exitStatus = "exited"

\* ------------------------------------------- claims on read by line range -
\* the read_file_code call that has returned, and the file it read
TheRead == fcall.op = "read" /\ fcall.pc = "returned" /\ files[fcall.path].exists
FileLines == Split(files[fcall.path].source, LF)

\* a 1-based line number or -1
LineOrDefault(n) == n = DEFAULT_LINE \/ n >= 1

\* the first and last line (1-based) the call selects
FirstSelected == IF fcall.startLine = DEFAULT_LINE THEN 1 ELSE fcall.startLine
LastSelected ==
    IF fcall.endLine = DEFAULT_LINE THEN Len(FileLines)
    ELSE Min(fcall.endLine, Len(FileLines))

\* the lines the call selects, joined by "\n"
SelectedPortion == Join(SubSeq(FileLines, FirstSelected, LastSelected), LF)

\* C23 (as claimed): a read_file_code call whose startLine/endLine select a
\* range of the file succeeds whenever the selected portion has at most
\* maxCharacters characters, also when the whole file has more.
C23_PortionWithinBudgetIsRead ==
    ( /\ TheRead
      /\ LineOrDefault(fcall.startLine) /\ LineOrDefault(fcall.endLine)
      /\ fcall.startLine >= 1 \/ fcall.endLine >= 1
      /\ FirstSelected <= LastSelected
      /\ Len(SelectedPortion) <= fcall.maxCharacters )
        => (fcall.result = "ok" /\ fcall.text = SelectedPortion)

\* C24 (as claimed): on a text file of n lines, read_file_code with 1-based
\* startLine s and endLine e (each of them -1 or at least 1, s <= e when both
\* are given) returns exactly the lines s..min(e, n) joined by "\n", where -1
\* stands for the first and for the last line; it fails when s > n and when
\* the clamped end is before the start. (A selection that is itself longer
\* than maxCharacters may fail: that is the budget, not the line range.)
C24_ReturnsExactlyTheLines ==
    ( /\ TheRead
      /\ LineOrDefault(fcall.startLine) /\ LineOrDefault(fcall.endLine)
      /\ (fcall.startLine >= 1 /\ fcall.endLine >= 1) => fcall.startLine <= fcall.endLine )
        => IF FirstSelected > Len(FileLines) \/ LastSelected < FirstSelected
           THEN fcall.result = "failed"
           ELSE Len(SelectedPortion) <= fcall.maxCharacters
                   => (fcall.result = "ok" /\ fcall.text = SelectedPortion)

\* the same for the calls on a file that is within maxCharacters as a whole
C24_WithinBudget ==
    (TheRead /\ Len(files[fcall.path].source) <= fcall.maxCharacters)
        => C24_ReturnsExactlyTheLines

\* ------------------------------------- claims on start, stop and toggles -
\* no toggleServerState invocation is suspended at an await
Quiescent == \A t \in Toggles : toggle[t].pc \in {"idle", "returned", "threw"}

\* C25 (as claimed): at every quiescent state, after any sequence of toggles
\* including ones in which start() or stop() throws, serverEnabled is true if
\* and only if mcpServer is defined and its HTTP server is listening.
C25_QuiescentEnabledIffListening ==
    Quiescent =>
        (serverEnabled <=> (mcpServer # 0 /\ inst[mcpServer].httpServer = "listening"))

\* the toggle t awaits start()
AwaitsStart(t) == toggle[t].pc \in {"start_connect", "start_listen"}

\* C26 (as claimed): MCPServer.start always settles (it resolves once the
\* HTTP server listens and rejects when the connection or the bind fails), so
\* a toggle that awaits start() eventually completes.
C26_StartAlwaysSettles ==
    \A t \in Toggles : AwaitsStart(t) ~> (toggle[t].pc \in {"returned", "threw"})

ShutdownStep == phase' = "deactivating"

\* C28 (as claimed): deactivate() ends with mcpServer undefined, whether stop()
\* returns or throws; stop() is called at most once on the instance during the
\* shutdown (by deactivate, not again by the disposable activate registered);
\* and the shutdown changes neither serverEnabled nor the persisted flag.
C28_DeactivateClearsAndStopsOnce ==
    [][ ShutdownStep =>
          /\ deact'.pc \in {"returned", "threw"} => mcpServer' = 0
          /\ deact'.self # 0 => disp'.self # deact'.self
          /\ serverEnabled' = serverEnabled
          /\ persisted' = persisted /\ persistedSet' = persistedSet
      ]_vars

\* the parts of C28 about deactivate() alone
C28_DeactivateAlone ==
    [][ ShutdownStep =>
          /\ deact'.pc \in {"returned", "threw"} => mcpServer' = 0
          /\ serverEnabled' = serverEnabled
          /\ persisted' = persisted /\ persistedSet' = persistedSet
      ]_vars

\* ------------------------------------------------ claims on setupTools ---
\* the instances activate and toggleServerState have built and started
StartedByExtension ==
    {i \in Instances : i = act.self \/ i = toggle[1].self \/ i = mcpServer}

\* C29: setupTools registers the file, edit, shell and diagnostics tools when
\* the file-listing callback was set before the call, and nothing otherwise
\* (also when the callback is set afterwards); start() resolves with the HTTP
\* server bound whatever was registered; the instances activate and
\* toggleServerState start have the callback set and all tools registered.
C29_ToolsNeedTheCallback ==
    /\ client.self # 0 =>
          /\ client.setup = "set" => inst[client.self].tools = ToolGroups
          /\ client.setup \in {"unset", "not_called"} => inst[client.self].tools = {}
          /\ client.pc = "returned" => inst[client.self].httpServer = "listening"
    /\ \A i \in StartedByExtension :
          inst[i].fileListingCallback /\ inst[i].tools = ToolGroups

\* C29 witness: setupTools was called without the callback, the callback was
\* set afterwards, start() has resolved and the server listens with no tool
\* registered; the extension has started an instance of its own before
C29_Witness ==
    /\ client.setup = "unset"
    /\ client.pc = "returned"
    /\ inst[client.self].fileListingCallback
    /\ inst[client.self].tools = {}
    /\ inst[client.self].httpServer = "listening"
    /\ toggle[1].self # 0 /\ toggle[1].self # client.self
    /\ inst[toggle[1].self].tools = ToolGroups

\* ------------------------------------------------ claims on persistence --
\* a toggleServerState invocation has completed (returned or thrown)
SomeToggleCompleted == \E t \in Toggles : toggle[t].pc \in {"returned", "threw"}

\* C30: once a toggle has completed, at every quiescent state the persisted
\* 'mcpServerEnabled' flag is stored and equals serverEnabled.
C30_PersistedEqualsEnabled ==
    (Quiescent /\ SomeToggleCompleted) => (persistedSet /\ persisted = serverEnabled)

\* C30 witness: a disabling toggle has completed its stop(), an enabling one
\* has thrown, and the flag is stored
C30_Witness ==
    /\ toggle[1].pc = "returned" /\ ~toggle[1].enabling /\ toggle[1].self # 0
    /\ toggle[2].pc = "threw" /\ toggle[2].enabling
    /\ persistedSet


====
